---- MODULE Spec2Model ----
(***************************************************************************)
(* Model of the set-prescription engine of five-three-one (src/lifts.rs):  *)
(* the weight scaler `scale`, the set formatter (Display for SetGroup),    *)
(* generate_primary_sets and generate_assistance_sets.                     *)
(*                                                                         *)
(* Strings are TLA+ strings, built by concatenation exactly as the code    *)
(* builds them.  f32 arithmetic is modelled on integers: a fraction is its *)
(* 24-bit significand and binary exponent, the product is rounded to 24    *)
(* significant bits (ties to even) and `round` rounds half away from zero. *)
(***************************************************************************)
EXTENDS Integers, Sequences, FiniteSets, TLC

(***************************************************************************)
(* Bounds of the model.                                                    *)
(***************************************************************************)
\* seeds of the random source: 0..MaxSeed
MaxSeed == 1
\* coins drawn from one random source in one behaviour
MaxDraws == 2
\* training maxes explored by the scaler specification: within WeightSpan of
\* zero, of the least and of the greatest i16
WeightSpan == 200

(***************************************************************************)
(* Types.                                                                  *)
(***************************************************************************)
Week == {"Week1", "Week2", "Week3", "Week4"}

Lift == {"Squat", "BenchPress", "Deadlift", "OverheadPress",
         "FrontSquat", "OverheadSquat", "BulgarianSplitSquat",
         "GoodMorning", "StraightLegDeadlift", "RomanianDeadlift",
         "RackDeadlift", "PowerClean", "PowerSnatch",
         "CloseGripBenchPress", "InclinePress"}

\* impl fmt::Display for Lift
LiftDisplay(lift) ==
    CASE lift = "Squat" -> "squat"
      [] lift = "BenchPress" -> "bench press"
      [] lift = "Deadlift" -> "deadlift"
      [] lift = "OverheadPress" -> "overhead press"
      [] lift = "FrontSquat" -> "front squat"
      [] lift = "OverheadSquat" -> "overhead squat"
      [] lift = "PowerClean" -> "power clean"
      [] lift = "PowerSnatch" -> "power snatch"
      [] lift = "BulgarianSplitSquat" -> "bulgarian split squat"
      [] lift = "GoodMorning" -> "good morning"
      [] lift = "StraightLegDeadlift" -> "straight leg deadlift"
      [] lift = "RomanianDeadlift" -> "romanian deadlift"
      [] lift = "RackDeadlift" -> "rack deadlift"
      [] lift = "CloseGripBenchPress" -> "close grip bench press"
      [] lift = "InclinePress" -> "incline press"

\* the range of i16 (SetGroup.weight, the values of the training-max table)
I16Min == -32768
I16Max == 32767

(***************************************************************************)
(* f32 arithmetic.  A scalar is named by its percentage (65 for the        *)
(* literal 0.65); its f32 value is F32Significand * 2^(-F32Shift).         *)
(***************************************************************************)
Fractions == {40, 50, 60, 65, 70, 75, 80, 85, 90, 95}

F32Significand(pct) ==
    CASE pct = 40 -> 13421773
      [] pct = 50 -> 8388608
      [] pct = 60 -> 10066330
      [] pct = 65 -> 10905190
      [] pct = 70 -> 11744051
      [] pct = 75 -> 12582912
      [] pct = 80 -> 13421773
      [] pct = 85 -> 14260634
      [] pct = 90 -> 15099494
      [] pct = 95 -> 15938355

F32Shift(pct) == IF pct = 40 THEN 25 ELSE 24

Abs(n) == IF n < 0 THEN -n ELSE n

\* q + rem / (2 * half) rounded to the nearest integer, ties to the even one
RoundTiesEven(q, rem, half) ==
    IF rem > half \/ (rem = half /\ q % 2 = 1) THEN q + 1 ELSE q

\* The exact product hi * 4096 + lo of two significands may have more than
\* 24 bits: the number of low bits an f32 drops (the bits of hi above 12).
RECURSIVE DroppedBits(_)
DroppedBits(hi) == IF hi < 4096 THEN 0 ELSE 1 + DroppedBits(hi \div 2)

\* (hi * 4096 + lo) \div 2^d
ShiftRight(hi, lo, d) ==
    IF d <= 12 THEN hi * (2 ^ (12 - d)) + (lo \div (2 ^ d))
    ELSE hi \div (2 ^ (d - 12))

\* (hi * 4096 + lo) % 2^d
LowBits(hi, lo, d) ==
    IF d <= 12 THEN lo % (2 ^ d)
    ELSE (hi % (2 ^ (d - 12))) * 4096 + lo

\* the product rounded to 24 significant bits: sig * 2^(-exp)
F32RoundProduct(hi, lo, d, shift) ==
    [sig |-> IF d = 0 THEN hi * 4096 + lo
             ELSE RoundTiesEven(ShiftRight(hi, lo, d), LowBits(hi, lo, d),
                                2 ^ (d - 1)),
     exp |-> shift - d]

\* hi * 4096 + lo = a * 4096 + b, with lo < 4096
F32Normalize(a, b, shift) ==
    LET hi == a + (b \div 4096)
        lo == b % 4096
    IN  F32RoundProduct(hi, lo, DroppedBits(hi), shift)

\* The f32 product magnitude * scalar: the exact product of the two
\* significands, kept in two 12-bit limbs, rounded to 24 significant bits.
F32Mul(magnitude, pct) ==
    LET sig == F32Significand(pct)
    IN  F32Normalize(magnitude * (sig \div 4096), magnitude * (sig % 4096),
                     F32Shift(pct))

\* f32::round: to the nearest integer, half away from zero (on a magnitude)
F32Round(x) ==
    IF x.exp <= 0 THEN x.sig * (2 ^ (-x.exp))
    ELSE (x.sig + 2 ^ (x.exp - 1)) \div (2 ^ x.exp)

\* `as i16` of a float saturates
AsI16(n) == IF n > I16Max THEN I16Max ELSE IF n < I16Min THEN I16Min ELSE n

\* scaling in 16-bit integer arithmetic: the product weight * percentage
\* wraps around
scale_wrapping_i16(weight, pct) ==
    LET product == ((weight * pct + 32768) % 65536) - 32768
    IN  IF product < 0 THEN -((-product + 50) \div 100)
        ELSE (product + 50) \div 100

\* scaling of the magnitude alone: the sign of the weight is lost
scale_magnitude(weight, pct) ==
    AsI16(F32Round(F32Mul(Abs(weight), pct)))

\* pub fn scale(weight: i16, scale: f32) -> i16
scale(weight, pct) ==
    IF weight < 0 THEN AsI16(-F32Round(F32Mul(-weight, pct)))
    ELSE AsI16(F32Round(F32Mul(weight, pct)))

(***************************************************************************)
(* The set formatter.                                                      *)
(***************************************************************************)
SetGroup(lift, weight, sets, reps, amrap) ==
    [lift |-> lift, weight |-> weight, sets |-> sets, reps |-> reps,
     amrap |-> amrap]

\* the formatter without the AMRAP marker
SetGroupDisplayNoAmrap(g) ==
    LET s0 == LiftDisplay(g.lift) \o " " \o ToString(g.weight) \o " "
        s1 == IF g.sets > 1 THEN s0 \o ToString(g.sets) ELSE s0
    IN  (s1 \o "x") \o ToString(g.reps)

\* impl fmt::Display for SetGroup
SetGroupDisplay(g) ==
    LET s0 == LiftDisplay(g.lift) \o " " \o ToString(g.weight) \o " "
        s1 == IF g.sets > 1 THEN s0 \o ToString(g.sets) ELSE s0
        s2 == (s1 \o "x") \o ToString(g.reps)
    IN  IF g.amrap THEN s2 \o "+" ELSE s2

(***************************************************************************)
(* Results: Result<Vec<String>, WorkoutError>.                             *)
(***************************************************************************)
NoLift == "none"

Ok(ret) == [ok |-> TRUE, ret |-> ret, kind |-> "", lift |-> NoLift,
            message |-> ""]

\* WorkoutError::MissingTrainingMax { lift }
MissingTrainingMax(lift) ==
    [ok |-> FALSE, ret |-> << >>, kind |-> "MissingTrainingMax",
     lift |-> lift, message |-> ""]

\* WorkoutError::Config(message)
Config(message) ==
    [ok |-> FALSE, ret |-> << >>, kind |-> "Config", lift |-> NoLift,
     message |-> message]

(***************************************************************************)
(* Primary lift set generator.                                             *)
(***************************************************************************)
\* the primary sets with the 60% warm-up in week 1 as well
primary_set_groups_warm_up_week1(lift, week, training_max) ==
    LET mk(scalar, sets, reps, amrap) ==
            SetGroup(lift, scale(training_max, scalar), sets, reps, amrap)
        warm == IF week # "Week4"
                  THEN << mk(40, 1, 5, FALSE), mk(50, 1, 5, FALSE),
                          mk(60, 1, 3, FALSE) >>
                  ELSE << >>
    IN  CASE week = "Week1" ->
               warm \o << mk(65, 1, 5, FALSE), mk(75, 1, 5, FALSE),
                          mk(85, 1, 5, TRUE) >>
          [] week = "Week2" ->
               warm \o << mk(70, 1, 3, FALSE), mk(80, 1, 3, FALSE),
                          mk(90, 1, 3, TRUE) >>
          [] week = "Week3" ->
               warm \o << mk(75, 1, 5, FALSE), mk(85, 1, 3, FALSE),
                          mk(95, 1, 1, TRUE) >>
          [] week = "Week4" ->
               warm \o << mk(40, 1, 5, FALSE), mk(50, 1, 5, FALSE),
                          mk(60, 1, 5, FALSE) >>

\* warm-up sets; no warm-up needed for deload week, and for week 1 the 60%
\* warm-up is too close to the first working set
primary_warm_up(lift, week, training_max) ==
    LET mk(scalar, sets, reps, amrap) ==
            SetGroup(lift, scale(training_max, scalar), sets, reps, amrap)
    IN  IF week = "Week4" THEN << >>
        ELSE IF week = "Week1"
        THEN << mk(40, 1, 5, FALSE), mk(50, 1, 5, FALSE) >>
        ELSE << mk(40, 1, 5, FALSE), mk(50, 1, 5, FALSE),
                mk(60, 1, 3, FALSE) >>

\* working sets
primary_working(lift, week, training_max) ==
    LET mk(scalar, sets, reps, amrap) ==
            SetGroup(lift, scale(training_max, scalar), sets, reps, amrap)
    IN  CASE week = "Week1" ->
               << mk(65, 1, 5, FALSE), mk(75, 1, 5, FALSE),
                  mk(85, 1, 5, TRUE) >>
          [] week = "Week2" ->
               << mk(70, 1, 3, FALSE), mk(80, 1, 3, FALSE),
                  mk(90, 1, 3, TRUE) >>
          [] week = "Week3" ->
               << mk(75, 1, 5, FALSE), mk(85, 1, 3, FALSE),
                  mk(95, 1, 1, TRUE) >>
          [] week = "Week4" ->
               << mk(40, 1, 5, FALSE), mk(50, 1, 5, FALSE),
                  mk(60, 1, 5, FALSE) >>

\* the SetGroup values generate_primary_sets renders, in push order
primary_set_groups(lift, week, training_max) ==
    primary_warm_up(lift, week, training_max)
        \o primary_working(lift, week, training_max)

\* .to_string() of every pushed SetGroup
RenderAll(groups) == [i \in 1..Len(groups) |-> SetGroupDisplay(groups[i])]

\* the primary sets with a missing training max read as zero
generate_primary_sets_default_zero(lift, week, training_maxes) ==
    LET training_max == IF lift \in DOMAIN training_maxes
                          THEN training_maxes[lift] ELSE 0
        g == primary_set_groups(lift, week, training_max)
    IN  [result |-> Ok([i \in 1..Len(g) |-> SetGroupDisplay(g[i])]),
         groups |-> g]

\* the result of the call and the SetGroups it built
generate_primary_sets(lift, week, training_maxes) ==
    IF lift \notin DOMAIN training_maxes
    THEN [result |-> MissingTrainingMax(lift), groups |-> << >>]
    ELSE LET g == primary_set_groups(lift, week, training_maxes[lift])
         IN  [result |-> Ok(RenderAll(g)), groups |-> g]

(***************************************************************************)
(* The random source.  A source is a seed and a position in the stream the *)
(* seed determines; the coin at position n of the stream of seed s is bit  *)
(* n of s, so the seeds 0..2^n - 1 cover every stream prefix of length n.  *)
(***************************************************************************)
StreamBit(seed, pos) == (seed \div (2 ^ pos)) % 2 = 1

\* the random source the caller holds and passes to generate_assistance_sets:
\* [seed, pos]
VARIABLE rng

\* a coin drawn from the caller's stream where it stands now, whatever
\* source is passed
gen_ambient(r) == [coin |-> StreamBit(rng.seed, rng.pos),
                   rng  |-> [r EXCEPT !.pos = @ + 1]]

\* let coin: bool = rng.gen();
gen(r) == [coin |-> StreamBit(r.seed, r.pos),
           rng  |-> [r EXCEPT !.pos = @ + 1]]

(***************************************************************************)
(* Simplest strength template (SST) set generator.                         *)
(***************************************************************************)
\* the closure make_set_str of generate_assistance_sets: the SetGroup, or
\* MissingTrainingMax
assistance_make_set_str(training_maxes, lift, scalar, sets, reps) ==
    IF lift \notin DOMAIN training_maxes THEN MissingTrainingMax(lift)
    ELSE Ok(<< SetGroup(lift, scale(training_maxes[lift], scalar), sets,
                        reps, FALSE) >>)

\* a push that drops a failed set and carries on
PushSkipFailed(acc, item) ==
    IF ~acc.ok THEN acc
    ELSE IF ~item.ok THEN acc
    ELSE [acc EXCEPT !.ret = acc.ret \o item.ret]

\* ret.push(make_set_str(..)?): the first error ends the call
Push(acc, item) ==
    IF ~acc.ok THEN acc
    ELSE IF ~item.ok THEN item
    ELSE Ok(acc.ret \o item.ret)

SupportedPrimary == {"Squat", "Deadlift", "BenchPress", "OverheadPress"}

big_assistance_lift(primary_lift) ==
    CASE primary_lift = "Squat" -> "PowerClean"
      [] primary_lift = "Deadlift" -> "FrontSquat"
      [] primary_lift = "BenchPress" -> "InclinePress"
      [] primary_lift = "OverheadPress" -> "CloseGripBenchPress"

\* the big assistance sets without the scheme of the power clean
big_assistance_groups_generic(lift, week, training_maxes) ==
    LET mk(scalar, sets, reps) ==
            assistance_make_set_str(training_maxes, lift, scalar, sets, reps)
        three(a, b, c) == Push(Push(Push(Ok(<< >>), a), b), c)
    IN  CASE week = "Week1" ->
               three(mk(50, 1, 10), mk(60, 1, 10), mk(70, 1, 10))
          [] week = "Week2" ->
               three(mk(60, 1, 8), mk(70, 1, 8), mk(80, 1, 6))
          [] week = "Week3" ->
               three(mk(65, 1, 5), mk(75, 1, 5), mk(85, 1, 5))
          [] week = "Week4" ->
               three(mk(40, 1, 5), mk(50, 1, 5), mk(60, 1, 5))

\* the big assistance SetGroups of the call, or the error that ends it
big_assistance_groups(lift, week, training_maxes) ==
    LET mk(scalar, sets, reps) ==
            assistance_make_set_str(training_maxes, lift, scalar, sets, reps)
        three(a, b, c) == Push(Push(Push(Ok(<< >>), a), b), c)
    IN  CASE lift = "PowerClean" /\ week = "Week4" ->
               three(mk(50, 1, 3), mk(60, 1, 3), mk(70, 1, 3))
          [] lift = "PowerClean" /\ week # "Week4" ->
               three(mk(65, 1, 3), mk(75, 1, 3), mk(85, 1, 3))
          [] lift # "PowerClean" /\ week = "Week1" ->
               three(mk(50, 1, 10), mk(60, 1, 10), mk(70, 1, 10))
          [] lift # "PowerClean" /\ week = "Week2" ->
               three(mk(60, 1, 8), mk(70, 1, 8), mk(80, 1, 6))
          [] lift # "PowerClean" /\ week = "Week3" ->
               three(mk(65, 1, 5), mk(75, 1, 5), mk(85, 1, 5))
          [] lift # "PowerClean" /\ week = "Week4" ->
               three(mk(40, 1, 5), mk(50, 1, 5), mk(60, 1, 5))

\* the small assistance with the squat's pull taken from the bench press
small_assistance_squat_3x10(primary_lift, r) ==
    LET g == gen(r)
    IN  CASE primary_lift = "Squat" ->
               [ok |-> TRUE, rng |-> g.rng,
                ret |-> << "RDLs, up to 225, 3x10",
                           IF g.coin THEN "chin-ups, 3x10"
                                     ELSE "pull-ups, 3x10" >>]
          [] primary_lift = "Deadlift" ->
               [ok |-> TRUE, rng |-> r,
                ret |-> << "overhead squat, 3x10" >>]
          [] primary_lift = "BenchPress" ->
               [ok |-> TRUE, rng |-> g.rng,
                ret |-> << IF g.coin THEN "chin-ups, 3x10"
                                     ELSE "pull-ups, 3x10" >>]
          [] primary_lift = "OverheadPress" ->
               [ok |-> TRUE, rng |-> g.rng,
                ret |-> << IF g.coin THEN "barbell 21s x3"
                                     ELSE "Kroc row, 3x20" >>]
          [] OTHER -> [ok |-> FALSE, rng |-> r, ret |-> << >>]

\* the small assistance with a coin drawn for the deadlift as well
small_assistance_deadlift_coin(primary_lift, r) ==
    LET g == gen(r)
    IN  CASE primary_lift = "Squat" ->
               [ok |-> TRUE, rng |-> g.rng,
                ret |-> << "RDLs, up to 225, 3x10",
                           IF g.coin THEN "chin-ups, 2x10"
                                     ELSE "pull-ups, 2x10" >>]
          [] primary_lift = "Deadlift" ->
               [ok |-> TRUE, rng |-> g.rng,
                ret |-> << "overhead squat, 3x10" >>]
          [] primary_lift = "BenchPress" ->
               [ok |-> TRUE, rng |-> g.rng,
                ret |-> << IF g.coin THEN "chin-ups, 3x10"
                                     ELSE "pull-ups, 3x10" >>]
          [] primary_lift = "OverheadPress" ->
               [ok |-> TRUE, rng |-> g.rng,
                ret |-> << IF g.coin THEN "barbell 21s x3"
                                     ELSE "Kroc row, 3x20" >>]
          [] OTHER -> [ok |-> FALSE, rng |-> r, ret |-> << >>]

\* the small assistance lines and the random source after them
small_assistance(primary_lift, r) ==
    LET g == gen(r)
    IN  CASE primary_lift = "Squat" ->
               [ok |-> TRUE, rng |-> g.rng,
                ret |-> << "RDLs, up to 225, 3x10",
                           IF g.coin THEN "chin-ups, 2x10"
                                     ELSE "pull-ups, 2x10" >>]
          [] primary_lift = "Deadlift" ->
               [ok |-> TRUE, rng |-> r,
                ret |-> << "overhead squat, 3x10" >>]
          [] primary_lift = "BenchPress" ->
               [ok |-> TRUE, rng |-> g.rng,
                ret |-> << IF g.coin THEN "chin-ups, 3x10"
                                     ELSE "pull-ups, 3x10" >>]
          [] primary_lift = "OverheadPress" ->
               [ok |-> TRUE, rng |-> g.rng,
                ret |-> << IF g.coin THEN "barbell 21s x3"
                                     ELSE "Kroc row, 3x20" >>]
          [] OTHER -> [ok |-> FALSE, rng |-> r, ret |-> << >>]

UnsupportedPrimaryLift(primary_lift) ==
    Config("Unsupported primary lift " \o LiftDisplay(primary_lift))

\* the generator with the primary lift's own training max required first
generate_assistance_sets_primary_too(primary_lift, week, training_maxes, r) ==
    IF primary_lift \notin DOMAIN training_maxes
    THEN [result |-> MissingTrainingMax(primary_lift), groups |-> << >>,
          rng |-> r]
    ELSE IF primary_lift \notin SupportedPrimary
    THEN [result |-> UnsupportedPrimaryLift(primary_lift),
          groups |-> << >>, rng |-> r]
    ELSE
    LET big == big_assistance_groups(big_assistance_lift(primary_lift), week,
                                     training_maxes)
        small == small_assistance(primary_lift, r)
    IN  IF ~big.ok
        THEN [result |-> big, groups |-> << >>, rng |-> r]
        ELSE [result |-> Ok(RenderAll(big.ret) \o small.ret),
              groups |-> big.ret, rng |-> small.rng]

\* the generator with an unsupported primary lift taken as its own big
\* assistance lift, and refused only at the small assistance
generate_assistance_sets_late_config(primary_lift, week, training_maxes, r) ==
    LET big == big_assistance_groups(
                   IF primary_lift \in SupportedPrimary
                     THEN big_assistance_lift(primary_lift)
                     ELSE primary_lift,
                   week, training_maxes)
        small == small_assistance(primary_lift, r)
    IN  IF ~big.ok
        THEN [result |-> big, groups |-> << >>, rng |-> r]
        ELSE IF ~small.ok
        THEN [result |-> UnsupportedPrimaryLift(primary_lift),
              groups |-> big.ret, rng |-> small.rng]
        ELSE [result |-> Ok(RenderAll(big.ret) \o small.ret),
              groups |-> big.ret, rng |-> small.rng]

\* the result of the call, the SetGroups it built and the random source
\* after it
generate_assistance_sets(primary_lift, week, training_maxes, r) ==
    IF primary_lift \notin SupportedPrimary
    THEN [result |-> UnsupportedPrimaryLift(primary_lift),
          groups |-> << >>, rng |-> r]
    ELSE
    LET big == big_assistance_groups(big_assistance_lift(primary_lift), week,
                                     training_maxes)
        small == small_assistance(primary_lift, r)
    IN  IF ~big.ok
        THEN [result |-> big, groups |-> << >>, rng |-> r]
        ELSE IF ~small.ok
        THEN [result |-> UnsupportedPrimaryLift(primary_lift),
              groups |-> big.ret, rng |-> small.rng]
        ELSE [result |-> Ok(RenderAll(big.ret) \o small.ret),
              groups |-> big.ret, rng |-> small.rng]

(***************************************************************************)
(* State.                                                                  *)
(***************************************************************************)
VARIABLES
    training_maxes, \* the training-max table: a function from some lifts to i16
    call,           \* the last call: [fn, lift, week, rng (before the call)]
    result,         \* what the last call returned
    groups,         \* the SetGroup values the last call built
    replay,         \* what the last assistance call returned when made again
                    \* with a second random source in the state the first had
    scalar,         \* scaler specification: the fraction last applied
    scaled,         \* scaler specification: scale(training max, scalar)
    coin_calls      \* history: how many assistance calls so far succeeded
                    \* with a primary lift other than the deadlift

vars ==
    << training_maxes, rng, call, result, groups, replay, scalar, scaled,
       coin_calls >>

NoResult == [ok |-> FALSE, ret |-> << >>, kind |-> "none", lift |-> NoLift,
             message |-> ""]

\* fn baseline_training_maxes of the tests, and values for the other lifts
BaselineTrainingMaxes ==
    [l \in Lift |->
        CASE l = "Squat" -> 325
          [] l = "BenchPress" -> 235
          [] l = "Deadlift" -> 365
          [] l = "OverheadPress" -> 170
          [] l = "PowerClean" -> 205
          [] l = "FrontSquat" -> 215
          [] l = "InclinePress" -> 215
          [] l = "CloseGripBenchPress" -> 215
          [] l = "OverheadSquat" -> 135
          [] l = "PowerSnatch" -> 0
          [] l = "BulgarianSplitSquat" -> -100
          [] l = "GoodMorning" -> I16Max
          [] l = "StraightLegDeadlift" -> I16Min
          [] l = "RomanianDeadlift" -> 225
          [] l = "RackDeadlift" -> 1]

\* other values, the primary lifts' not positive
OtherTrainingMaxes ==
    [l \in Lift |->
        CASE l \in {"Squat", "Deadlift"} -> -315
          [] l \in {"BenchPress", "OverheadPress"} -> 0
          [] l = "PowerClean" -> 90
          [] OTHER -> 170]

Restrict(table, lifts) == [l \in lifts |-> table[l]]

\* the tables explored: every lift present; the table of
\* tests::assistance_sets_require_training_max; and two tables that lack a
\* primary lift whose assistance lift is present, and an assistance lift
\* whose primary lift is present
Tables ==
    { BaselineTrainingMaxes,
      Restrict(BaselineTrainingMaxes, {"Squat"}),
      Restrict(OtherTrainingMaxes,
               Lift \ {"Squat", "FrontSquat", "BenchPress",
                       "CloseGripBenchPress", "GoodMorning"}),
      Restrict(OtherTrainingMaxes,
               Lift \ {"PowerClean", "Deadlift", "InclinePress",
                       "OverheadPress", "RackDeadlift"}) }

Seeds == 0..MaxSeed

NoCall(r) == [fn |-> "none", lift |-> NoLift, week |-> "none", rng |-> r]

Init ==
    /\ training_maxes \in Tables
    /\ rng \in [seed : Seeds, pos : {0}]
    /\ call = NoCall(rng)
    /\ result = NoResult
    /\ groups = << >>
    /\ replay = NoResult
    /\ scalar = 40
    /\ scaled = 0
    /\ coin_calls = 0

(***************************************************************************)
(* Operations.                                                             *)
(***************************************************************************)
\* generate_primary_sets(&lift, &week, &training_maxes)
PrimaryCall(lift, week) ==
    /\ call' = [fn |-> "primary", lift |-> lift, week |-> week, rng |-> rng]
    /\ LET r == generate_primary_sets(lift, week, training_maxes)
       IN  result' = r.result /\ groups' = r.groups
    /\ replay' = NoResult
    /\ UNCHANGED << training_maxes, rng, scalar, scaled, coin_calls >>

\* generate_assistance_sets(&primary_lift, &week, &training_maxes, &mut rng)
AssistanceCall(primary_lift, week) ==
    LET r == generate_assistance_sets(primary_lift, week, training_maxes, rng)
    IN  /\ r.rng.pos <= MaxDraws
        /\ call' = [fn |-> "assistance", lift |-> primary_lift,
                    week |-> week, rng |-> rng]
        /\ result' = r.result
        /\ groups' = r.groups
        /\ rng' = r.rng
        /\ replay' = NoResult
        /\ coin_calls' = IF r.result.ok /\ primary_lift # "Deadlift"
                           THEN coin_calls + 1 ELSE coin_calls
        /\ UNCHANGED << training_maxes, scalar, scaled >>

\* tests::assistance_sets_are_deterministic_with_seed: the same call again,
\* on a second random source (rng_b) in the state the first one had
AssistanceReplay ==
    /\ call.fn = "assistance"
    /\ replay = NoResult
    /\ replay' = generate_assistance_sets(call.lift, call.week,
                                          training_maxes, call.rng).result
    /\ UNCHANGED << training_maxes, rng, call, result, groups, scalar,
                    scaled, coin_calls >>

Next ==
    \/ \E lift \in Lift, week \in Week : PrimaryCall(lift, week)
    \/ \E lift \in Lift, week \in Week : AssistanceCall(lift, week)
    \/ AssistanceReplay

Spec == Init /\ [][Next]_vars

(***************************************************************************)
(* The scaler specification: one lift's training max drawn from the i16    *)
(* range, every fraction of the policy tables applied to it, and the       *)
(* primary sets generated from it.                                         *)
(***************************************************************************)
ScaleLift == "Squat"

WeightRange ==
    {w \in I16Min..I16Max :
        \/ Abs(w) <= WeightSpan
        \/ w <= I16Min + WeightSpan
        \/ w >= I16Max - WeightSpan}

ScaleInit ==
    /\ training_maxes \in {[l \in {ScaleLift} |-> w] : w \in WeightRange}
    /\ rng = [seed |-> 0, pos |-> 0]
    /\ call = NoCall(rng)
    /\ result = NoResult
    /\ groups = << >>
    /\ replay = NoResult
    /\ scalar \in Fractions
    /\ scaled = scale(training_maxes[ScaleLift], scalar)
    /\ coin_calls = 0

\* scale(training_max, f)
Rescale(f) ==
    /\ f # scalar
    /\ scalar' = f
    /\ scaled' = scale(training_maxes[ScaleLift], f)
    /\ UNCHANGED << training_maxes, rng, call, result, groups, replay,
                    coin_calls >>

ScaleNext ==
    \/ \E f \in Fractions : Rescale(f)
    \/ \E week \in Week : PrimaryCall(ScaleLift, week)

ScaleSpec == ScaleInit /\ [][ScaleNext]_vars

(***************************************************************************)
(* Properties.                                                             *)
(***************************************************************************)
\* "<lift> <weight> x<reps>", with "+" for an AMRAP set
Entry(lift, weight, reps, amrap) ==
    LiftDisplay(lift) \o " " \o ToString(weight) \o " x" \o ToString(reps)
        \o (IF amrap THEN "+" ELSE "")

\* the policy table of the primary lift: << fraction, reps, AMRAP >>
PrimaryScheme(week) ==
    CASE week = "Week1" ->
           << <<40, 5, FALSE>>, <<50, 5, FALSE>>, <<65, 5, FALSE>>,
              <<75, 5, FALSE>>, <<85, 5, TRUE>> >>
      [] week = "Week2" ->
           << <<40, 5, FALSE>>, <<50, 5, FALSE>>, <<60, 3, FALSE>>,
              <<70, 3, FALSE>>, <<80, 3, FALSE>>, <<90, 3, TRUE>> >>
      [] week = "Week3" ->
           << <<40, 5, FALSE>>, <<50, 5, FALSE>>, <<60, 3, FALSE>>,
              <<75, 5, FALSE>>, <<85, 3, FALSE>>, <<95, 1, TRUE>> >>
      [] week = "Week4" ->
           << <<40, 5, FALSE>>, <<50, 5, FALSE>>, <<60, 5, FALSE>> >>

ExpectedEntries(lift, training_max, scheme) ==
    [i \in 1..Len(scheme) |->
        Entry(lift, scale(training_max, scheme[i][1]), scheme[i][2],
              scheme[i][3])]

\* C1: generate_primary_sets of a lift that has a training max succeeds and
\* returns the warm-up entries followed by the three working entries of the
\* week, each "<lift> <scale(training max, fraction)> x<reps>" (the last of
\* weeks 1-3 with "+"); squat at 325 gives the entries of the test in week 1
\* and 130, 163, 195 in week 4.
C1_PrimarySets ==
    (call.fn = "primary" /\ call.lift \in DOMAIN training_maxes) =>
        /\ result.ok
        /\ result.ret = ExpectedEntries(call.lift, training_maxes[call.lift],
                                        PrimaryScheme(call.week))
        /\ (call.lift = "Squat" /\ training_maxes["Squat"] = 325
               /\ call.week = "Week1") =>
              result.ret = << "squat 130 x5", "squat 163 x5", "squat 211 x5",
                              "squat 244 x5", "squat 276 x5+" >>
        /\ (call.lift = "Squat" /\ training_maxes["Squat"] = 325
               /\ call.week = "Week4") =>
              result.ret = << "squat 130 x5", "squat 163 x5",
                              "squat 195 x5" >>

C1_Witness ==
    /\ call.fn = "primary"
    /\ call.lift = "Squat"
    /\ call.week = "Week1"
    /\ "Squat" \in DOMAIN training_maxes
    /\ training_maxes["Squat"] = 325
    /\ result.ok
    /\ Len(result.ret) = 5

\* the positions of "+" in a string
PlusPositions(s) == {i \in 1..Len(s) : SubSeq(s, i, i) = "+"}

\* C2: in a successful generate_primary_sets result "+" ends the last entry
\* and no other in weeks 1-3, and is in no entry in week 4.
C2_AmrapOnLastOnly ==
    (call.fn = "primary" /\ result.ok) =>
        \A i \in 1..Len(result.ret) :
            PlusPositions(result.ret[i]) =
                IF call.week # "Week4" /\ i = Len(result.ret)
                  THEN {Len(result.ret[i])}
                  ELSE {}

C2_Witness ==
    /\ call.fn = "primary"
    /\ call.week = "Week3"
    /\ result.ok
    /\ Len(result.ret) = 6
    /\ PlusPositions(result.ret[6]) # {}
    /\ PlusPositions(result.ret[5]) = {}

\* C3: generate_primary_sets of a lift without a training max fails with
\* MissingTrainingMax of that lift and returns no entry, whatever else the
\* table holds.
C3_PrimaryMissingTrainingMax ==
    (call.fn = "primary" /\ call.lift \notin DOMAIN training_maxes) =>
        /\ ~result.ok
        /\ result.kind = "MissingTrainingMax"
        /\ result.lift = call.lift
        /\ result.ret = << >>
        /\ groups = << >>

C3_Witness ==
    /\ call.fn = "primary"
    /\ call.lift = "Deadlift"
    /\ "Deadlift" \notin DOMAIN training_maxes
    /\ Cardinality(DOMAIN training_maxes) > 1
    /\ result.kind = "MissingTrainingMax"

\* the big assistance lift of each supported primary lift
AssistanceOf ==
    [l \in {"Squat", "Deadlift", "BenchPress", "OverheadPress"} |->
        CASE l = "Squat" -> "PowerClean"
          [] l = "Deadlift" -> "FrontSquat"
          [] l = "BenchPress" -> "InclinePress"
          [] l = "OverheadPress" -> "CloseGripBenchPress"]

\* C4: generate_assistance_sets of a supported primary lift whose big
\* assistance lift has no training max fails with MissingTrainingMax of the
\* assistance lift, and returns no entry and no accessory line.
C4_AssistanceMissingTrainingMax ==
    (/\ call.fn = "assistance"
     /\ call.lift \in DOMAIN AssistanceOf
     /\ AssistanceOf[call.lift] \notin DOMAIN training_maxes) =>
        /\ ~result.ok
        /\ result.kind = "MissingTrainingMax"
        /\ result.lift = AssistanceOf[call.lift]
        /\ result.ret = << >>

C4_Witness ==
    /\ call.fn = "assistance"
    /\ call.lift = "Squat"
    /\ DOMAIN training_maxes = {"Squat"}
    /\ result.kind = "MissingTrainingMax"
    /\ result.lift = "PowerClean"

\* C5 as stated: generate_assistance_sets of a supported primary lift that
\* has no training max, while its assistance lift has one, fails with
\* MissingTrainingMax of the primary lift.
C5_PrimaryMissingFails ==
    (/\ call.fn = "assistance"
     /\ call.lift \in DOMAIN AssistanceOf
     /\ call.lift \notin DOMAIN training_maxes
     /\ AssistanceOf[call.lift] \in DOMAIN training_maxes) =>
        /\ ~result.ok
        /\ result.kind = "MissingTrainingMax"
        /\ result.lift = call.lift

\* C5 as amended: generate_assistance_sets reports MissingTrainingMax only
\* of the big assistance lift, and only when that lift has no training max;
\* a supported primary lift that has no training max itself, while its
\* assistance lift has one, gets its sets.
C5_OnlyAssistanceLiftRequired ==
    call.fn = "assistance" =>
        /\ result.kind = "MissingTrainingMax" =>
              /\ call.lift \in DOMAIN AssistanceOf
              /\ result.lift = AssistanceOf[call.lift]
              /\ result.lift \notin DOMAIN training_maxes
        /\ (/\ call.lift \in DOMAIN AssistanceOf
            /\ call.lift \notin DOMAIN training_maxes
            /\ AssistanceOf[call.lift] \in DOMAIN training_maxes) =>
              (result.ok /\ Len(result.ret) >= 4)

C5_Witness ==
    /\ call.fn = "assistance"
    /\ call.lift = "Deadlift"
    /\ "Deadlift" \notin DOMAIN training_maxes
    /\ "FrontSquat" \in DOMAIN training_maxes
    /\ result.ok
    /\ Len(result.ret) = 4

\* C6: generate_assistance_sets of a lift other than squat, bench press,
\* deadlift and overhead press fails with a Config error and returns no
\* sets, whether or not the table has an entry for the lift.
C6_UnsupportedPrimaryLift ==
    (call.fn = "assistance" /\ call.lift \notin DOMAIN AssistanceOf) =>
        /\ ~result.ok
        /\ result.kind = "Config"
        /\ result.message = "Unsupported primary lift " \o LiftDisplay(call.lift)
        /\ result.ret = << >>

C6_Witness ==
    /\ call.fn = "assistance"
    /\ call.lift = "FrontSquat"
    /\ "FrontSquat" \notin DOMAIN training_maxes
    /\ result.kind = "Config"
    /\ result.message = "Unsupported primary lift front squat"

\* the policy table of the big assistance lift: << fraction, reps >>
AssistanceScheme(lift, week) ==
    CASE lift = "PowerClean" /\ week = "Week4" ->
           << <<50, 3>>, <<60, 3>>, <<70, 3>> >>
      [] lift = "PowerClean" /\ week # "Week4" ->
           << <<65, 3>>, <<75, 3>>, <<85, 3>> >>
      [] lift # "PowerClean" /\ week = "Week1" ->
           << <<50, 10>>, <<60, 10>>, <<70, 10>> >>
      [] lift # "PowerClean" /\ week = "Week2" ->
           << <<60, 8>>, <<70, 8>>, <<80, 6>> >>
      [] lift # "PowerClean" /\ week = "Week3" ->
           << <<65, 5>>, <<75, 5>>, <<85, 5>> >>
      [] lift # "PowerClean" /\ week = "Week4" ->
           << <<40, 5>>, <<50, 5>>, <<60, 5>> >>

\* the table with the entry of a lift set, and removed
WithEntry(table, lift, v) ==
    [l \in DOMAIN table \cup {lift} |-> IF l = lift THEN v ELSE table[l]]

WithoutEntry(table, lift) == [l \in DOMAIN table \ {lift} |-> table[l]]

OtherMaxes == {I16Min, -1, 0, 1, 325, I16Max}

\* C7: the first three entries of a successful generate_assistance_sets
\* result are the sets of the mapped assistance lift in the order of its
\* scheme, weighted by scale(training max of the assistance lift, fraction)
\* and without "+"; and the result is the same whatever the primary lift's
\* own training max is, or without one.
C7_BigAssistance ==
    (call.fn = "assistance" /\ result.ok) =>
        LET lift == AssistanceOf[call.lift]
            scheme == AssistanceScheme(lift, call.week)
        IN  /\ Len(result.ret) >= 3
            /\ \A i \in 1..3 :
                  result.ret[i] =
                      Entry(lift, scale(training_maxes[lift], scheme[i][1]),
                            scheme[i][2], FALSE)
            /\ \A v \in OtherMaxes :
                  generate_assistance_sets(
                      call.lift, call.week,
                      WithEntry(training_maxes, call.lift, v),
                      call.rng).result = result
            /\ generate_assistance_sets(
                  call.lift, call.week,
                  WithoutEntry(training_maxes, call.lift),
                  call.rng).result = result

C7_Witness ==
    /\ call.fn = "assistance"
    /\ call.lift = "Squat"
    /\ call.week = "Week4"
    /\ result.ok
    /\ DOMAIN training_maxes = Lift
    /\ training_maxes["Squat"] # training_maxes["PowerClean"]
    /\ result.ret[3] = "power clean 144 x3"

\* C8: after the three big assistance entries come the accessory lines of
\* the primary lift and nothing else, the coin choosing between the two
\* lines of a binary choice, whatever the week and the training maxes.
C8_SmallAssistance ==
    (call.fn = "assistance" /\ result.ok) =>
        LET coin == StreamBit(call.rng.seed, call.rng.pos)
            rest == SubSeq(result.ret, 4, Len(result.ret))
        IN  CASE call.lift = "Squat" ->
                   /\ Len(rest) = 2
                   /\ rest[1] = "RDLs, up to 225, 3x10"
                   /\ rest[2] \in {"chin-ups, 2x10", "pull-ups, 2x10"}
                   /\ (rest[2] = "chin-ups, 2x10") <=> coin
              [] call.lift = "Deadlift" ->
                   rest = << "overhead squat, 3x10" >>
              [] call.lift = "BenchPress" ->
                   /\ Len(rest) = 1
                   /\ rest[1] \in {"chin-ups, 3x10", "pull-ups, 3x10"}
                   /\ (rest[1] = "chin-ups, 3x10") <=> coin
              [] call.lift = "OverheadPress" ->
                   /\ Len(rest) = 1
                   /\ rest[1] \in {"barbell 21s x3", "Kroc row, 3x20"}
                   /\ (rest[1] = "barbell 21s x3") <=> coin

\* the second coin of a stream whose first coin fell the other way
C8_Witness ==
    /\ call.fn = "assistance"
    /\ call.lift = "Squat"
    /\ result.ok
    /\ Len(result.ret) = 5
    /\ result.ret[5] = "pull-ups, 2x10"
    /\ call.rng.pos = 1
    /\ StreamBit(call.rng.seed, 0)

NonDecreasing(g) == \A i \in 1..(Len(g) - 1) : g[i].weight <= g[i + 1].weight

\* C10 as stated: for every training max, a fraction at least as large
\* gives a weight at least as large, and the weights of the primary sets
\* never decrease from one entry to the next.
C10_MonotonicAnySign ==
    [][/\ scalar' >= scalar => scaled' >= scaled
       /\ call'.fn = "primary" => NonDecreasing(groups')]_vars

\* C10 as amended: for every training max that is not negative, a fraction
\* at least as large gives a weight at least as large, and the weights of
\* the primary sets never decrease from one entry to the next.
C10_MonotonicNonNegative ==
    [][training_maxes[ScaleLift] >= 0 =>
         /\ scalar' >= scalar => scaled' >= scaled
         /\ call'.fn = "primary" => NonDecreasing(groups')]_vars

C10_Witness ==
    /\ training_maxes[ScaleLift] = I16Max
    /\ scalar = 95
    /\ scaled = 31129
    /\ call.fn = "primary"
    /\ call.week = "Week3"
    /\ Len(groups) = 6
    /\ groups[6].weight = scaled

\* the exact product weight * pct / 100 rounded to the nearest integer, an
\* exact half rounded up in magnitude
ExactRounded(weight, pct) ==
    IF weight < 0 THEN -((2 * (-weight) * pct + 100) \div 200)
    ELSE (2 * weight * pct + 100) \div 200

\* C11: scale(training max, fraction) is the exact product rounded to the
\* nearest integer, an exact half rounded up; scale(325, .) is 163, 211,
\* 244 and 276 at 0.5, 0.65, 0.75 and 0.85.
C11_ExactProductRounded ==
    /\ scaled = ExactRounded(training_maxes[ScaleLift], scalar)
    /\ scale(325, 50) = 163
    /\ scale(325, 65) = 211
    /\ scale(325, 75) = 244
    /\ scale(325, 85) = 276

\* C12: over any sequence of calls that share one random source and one
\* table, the table is never modified; generate_primary_sets draws nothing;
\* a failing assistance call draws nothing; a successful one draws exactly
\* one coin for the squat, the bench press and the overhead press and none
\* for the deadlift; so the position of the source is the number of
\* successful assistance calls whose primary lift is not the deadlift.
\* (A step that sets replay is the second call of the determinism test, on
\* its own source; every other step is a call on the shared source, and
\* call', result' describe it.)
C12_FrameEffect ==
    /\ rng.pos = coin_calls
    /\ [][ /\ training_maxes' = training_maxes
           /\ rng'.seed = rng.seed
           /\ rng'.pos = coin_calls'
           /\ replay' # NoResult => rng' = rng
           /\ replay' = NoResult /\ call'.fn = "primary" => rng' = rng
           /\ replay' = NoResult /\ call'.fn = "assistance" /\ ~result'.ok
                 => rng' = rng
           /\ replay' = NoResult /\ call'.fn = "assistance" /\ result'.ok
                 => rng'.pos = rng.pos
                                 + (IF call'.lift = "Deadlift" THEN 0 ELSE 1)
         ]_vars

\* two coins drawn, then a successful deadlift call that drew none
C12_Witness ==
    /\ call.fn = "assistance"
    /\ call.lift = "Deadlift"
    /\ result.ok
    /\ call.rng = rng
    /\ rng.pos = 2
    /\ coin_calls = 2

\* (weight as f32 * scale).round(), before the conversion to i16
RoundedProduct(weight, pct) ==
    IF weight < 0 THEN -F32Round(F32Mul(-weight, pct))
    ELSE F32Round(F32Mul(weight, pct))

\* scaled has the sign of the training max or is zero, and is no larger in
\* magnitude
WithinTrainingMax(training_max, weight) ==
    /\ training_max >= 0 => weight >= 0
    /\ training_max <= 0 => weight <= 0
    /\ Abs(weight) <= Abs(training_max)

\* C13: for every i16 training max and every fraction from 0.40 to 0.95 the
\* scaled weight has the sign of the training max (or is zero) and a
\* magnitude no larger than the training max's, so the conversion to i16
\* neither overflows nor saturates; a training max of 0 yields weight 0 in
\* every entry.
C13_NoOverflow ==
    LET training_max == training_maxes[ScaleLift]
    IN  /\ WithinTrainingMax(training_max, scaled)
        /\ RoundedProduct(training_max, scalar) \in I16Min..I16Max
        /\ scaled = RoundedProduct(training_max, scalar)
        /\ \A i \in 1..Len(groups) :
               /\ WithinTrainingMax(training_max, groups[i].weight)
               /\ training_max = 0 => groups[i].weight = 0
        /\ training_max = 0 => scaled = 0

\* the most negative training max at the largest fraction, and the primary
\* sets generated from it
C13_Witness ==
    /\ training_maxes[ScaleLift] = I16Min
    /\ scalar = 95
    /\ scaled = -31130
    /\ call.fn = "primary"
    /\ call.week = "Week1"
    /\ Len(groups) = 5
    /\ groups[5].weight = -27853

====
